---- MODULE Spec2Model ----
(***************************************************************************)
(* The "linear" command line tool.  The ranking command                    *)
(* (fetchPriorityTickets) exists in three source variants:                 *)
(*                                                                         *)
(*   "newest"  src/unnamed/part_000  lines 605-813 (4 hour window,         *)
(*             --include-commented and --backlog flags)                    *)
(*   "middle"  src/linear/cli.js     lines 240-441 (2 hour window)         *)
(*   "oldest"  src/linear/cli.js     lines 639-760 (2 hour window, no      *)
(*             assignee filter, loop stops at `limit` processed issues)    *)
(*                                                                         *)
(* One invocation of the command is modelled: the API key check, the       *)
(* request to the remote service, the response, and the client-side        *)
(* filter / sort / slice that produces the printed list.                   *)
(*                                                                         *)
(* The newest variant also has the done-transition (markTicketDone,        *)
(* src/unnamed/part_000 lines 299-602); the newest and middle variants     *)
(* have the commands on teams (listTeams, setDefaultTeam) and their        *)
(* config files.  src/unnamed/part_001 is a separate program, the general  *)
(* fetch (fetchLinearTickets), called the "general" variant here.          *)
(*                                                                         *)
(* The command line (argv) is parsed as commander parses it, the parser of *)
(* --limit included.  The specifications of single handlers start from a   *)
(* command line with at least one argument; SpecProgram also has the empty *)
(* command line, on which the middle variant runs the ranking twice, and   *)
(* SpecConfig runs the program a second time after set-default.            *)
(***************************************************************************)
EXTENDS Integers, Sequences, FiniteSets, TLC

VARIABLES
  variant,        \* which source variant of the program runs
  apiKey,         \* TRUE iff process.env.LINEAR_API_KEY is set
  options,        \* the parsed command line options
  remoteIssues,   \* the issues held by the remote service, in API order
  pc,             \* position of the invocation
  request,        \* the query in flight (variables of the GraphQL request)
  response,       \* the response received: viewer and fetched batch
  output,         \* focusedIssues: the list printed by the command
  command,        \* the command of the invocation
  globalFile,     \* the global config file (CONFIG_PATH)
  localFiles,     \* the .linear.toml of the working directory and of each
                  \* directory above it, the filesystem root last
  remote,         \* what the remote service holds besides the ranked issues
  locals,         \* the values the done-transition has resolved so far
  sent,           \* the requests sent to the remote service, in order
  argv,           \* process.argv.slice(2): the command line arguments
  lastRun         \* the command line and the output of the invocation
                  \* before this one, when there was one

vars == <<variant, apiKey, options, remoteIssues, pc, request, response, output,
          command, globalFile, localFiles, remote, locals, sent, argv, lastRun>>

----------------------------------------------------------------------------
(* Bounds of the model.                                                    *)

MaxIssues == 2
MaxComments == 2
MaxLimit == 2
MaxLabels == 3
MaxUsers == 2
MaxStates == 2
MaxTeams == 2
MaxDirs == 2

----------------------------------------------------------------------------
(* Values.  A JavaScript value that may be null / undefined / NaN is a     *)
(* sequence of length at most one: <<>> is the absent value, <<x>> is x.   *)

None == <<>>
Some(x) == <<x>>
IsNone(o) == o = <<>>
Val(o) == o[1]

Variants == {"newest", "middle", "oldest"}

Me == "viewer"
Other == "colleague"
NoUser == "nobody"

Min(a, b) == IF a <= b THEN a ELSE b
Max(a, b) == IF a >= b THEN a ELSE b

Minute == 60 * 1000
Hour == 60 * Minute
Now == 6 * Hour

----------------------------------------------------------------------------
(* The remote service: the issue filter of the query and the page size.    *)

IssueFilterNoType(v) ==
  [typeNin |-> {},
   nameNin |-> IF v = "oldest" THEN {} ELSE {"Ready to Deploy", "Done"}]

IssueFilter(v) ==
  [typeNin |-> {"completed", "canceled"},
   nameNin |-> IF v = "oldest" THEN {} ELSE {"Ready to Deploy", "Done"}]

FetchFirst == 30

\* `first` of the issues query: 30, or options.limit * 10 in the oldest
\* variant (NaN stays NaN).
QueryFirst(v, opts) ==
  IF v = "oldest"
  THEN IF IsNone(opts.limit) THEN None ELSE Some(Val(opts.limit) * 10)
  ELSE Some(FetchFirst)

BuildRequest(v, opts) == [first |-> QueryFirst(v, opts), filter |-> IssueFilter(v)]

NoRequest == [first |-> None, filter |-> [typeNin |-> {}, nameNin |-> {}]]

\* The remote service's semantics of the `nin` comparators of the filter.
FilterMatches(filter, issue) ==
  /\ issue.state.type \notin filter.typeNin
  /\ issue.state.name \notin filter.nameNin

\* The page returned: the first `first` matching issues.  A `first` that
\* serialises to null (NaN) leaves the page to the service's default size,
\* which exceeds every batch of the model; a negative one yields no issue.
RemotePage(issues, req) ==
  LET matching == SelectSeq(issues, LAMBDA i : FilterMatches(req.filter, i))
  IN IF IsNone(req.first) THEN matching
     ELSE SubSeq(matching, 1, Min(Len(matching), Max(Val(req.first), 0)))

----------------------------------------------------------------------------
(* The comment scan of one issue.                                          *)

TwoHours == 2 * 60 * 60 * 1000
FourHours == 4 * 60 * 60 * 1000

\* twoHoursAgo / fourHoursAgo
Cutoff(v) == IF v = "newest" THEN Now - FourHours ELSE Now - TwoHours

\* The test that sets hasRecentComment.
IsRecentOwnInclusive(comment, viewerId, cutoff) ==
  comment.user = viewerId /\ comment.createdAt >= cutoff

IsRecentOwn(comment, viewerId, cutoff) ==
  comment.user = viewerId /\ comment.createdAt > cutoff

\* for (const comment of issue.comments.nodes) { ... break; }
RECURSIVE CommentLoop(_, _, _, _, _)
CommentLoop(comments, i, viewerId, cutoff, last) ==
  IF i > Len(comments)
  THEN [hasRecentComment |-> FALSE, lastCommentTime |-> last]
  ELSE LET comment == comments[i]
           commentTime == comment.createdAt
           newLast == IF IsNone(last) \/ commentTime > Val(last)
                      THEN Some(commentTime) ELSE last
       IN IF IsRecentOwn(comment, viewerId, cutoff)
          THEN [hasRecentComment |-> TRUE, lastCommentTime |-> newLast]
          ELSE CommentLoop(comments, i + 1, viewerId, cutoff, newLast)

ScanComments(comments, viewerId, cutoff) ==
  CommentLoop(comments, 1, viewerId, cutoff, None)

\* Date.prototype.toISOString of a valid date: a string that determines
\* the instant.
ToISOString(t) == <<"ISO", t>>

----------------------------------------------------------------------------
(* The processing loop: filter the fetched batch into processedIssues.     *)

\* if (hasRecentComment [&& !options.includeCommented]) continue;
SkipCommentedNever(v, opts, hasRecentComment) == FALSE

SkipCommented(v, opts, hasRecentComment) ==
  IF v = "newest"
  THEN hasRecentComment /\ ~opts.includeCommented
  ELSE hasRecentComment

\* The assignee test; the oldest variant has none.
SkipAssigneeOnlyStrangersInDefault(v, opts, issue, viewerId) ==
  IF v = "oldest" THEN FALSE
  ELSE issue.assignee # NoUser /\ issue.assignee # viewerId

SkipAssignee(v, opts, issue, viewerId) ==
  CASE v = "newest" ->
         IF ~opts.backlog
         THEN issue.assignee = NoUser \/ issue.assignee # viewerId
         ELSE issue.assignee # NoUser /\ issue.assignee # viewerId
    [] v = "middle" -> issue.assignee # NoUser /\ issue.assignee # viewerId
    [] OTHER -> FALSE

\* if (processedIssues.length >= options.limit) break;   (oldest variant)
StopEarly(v, opts, processed) ==
  v = "oldest" /\ ~IsNone(opts.limit) /\ Len(processed) >= Val(opts.limit)

\* The record pushed on processedIssues.
ProcessedRecord(issue, scan, viewerId) ==
  [id |-> issue.id,
   priority |-> issue.priority,
   status |-> issue.state.name,
   assignee |-> issue.assignee,
   isAssignedToMe |-> (issue.assignee # NoUser /\ issue.assignee = viewerId),
   lastCommentTime |-> IF IsNone(scan.lastCommentTime) THEN None
                       ELSE Some(ToISOString(Val(scan.lastCommentTime)))]

RECURSIVE ProcessLoop(_, _, _, _, _, _)
ProcessLoop(v, opts, issues, i, viewerId, processed) ==
  IF i > Len(issues) \/ StopEarly(v, opts, processed)
  THEN processed
  ELSE LET issue == issues[i]
           scan == ScanComments(issue.comments, viewerId, Cutoff(v))
       IN IF SkipCommented(v, opts, scan.hasRecentComment)
          THEN ProcessLoop(v, opts, issues, i + 1, viewerId, processed)
          ELSE IF SkipAssignee(v, opts, issue, viewerId)
          THEN ProcessLoop(v, opts, issues, i + 1, viewerId, processed)
          ELSE ProcessLoop(v, opts, issues, i + 1, viewerId,
                           Append(processed, ProcessedRecord(issue, scan, viewerId)))

ProcessIssues(v, opts, issues, viewerId) ==
  ProcessLoop(v, opts, issues, 1, viewerId, <<>>)

----------------------------------------------------------------------------
(* The sort comparator.                                                    *)

getStatusWeight(status) ==
  CASE status = "In Review" -> 1
    [] status = "In Progress" -> 2
    [] status = "Todo" -> 3
    [] status = "Backlog" -> 4
    [] OTHER -> 5

getPriorityWeight(p) ==
  IF IsNone(p) \/ p = Some(0) THEN 5 ELSE Val(p)

ComparePriorityThenStatus(a, b) ==
  LET priorityDiff == getPriorityWeight(a.priority) - getPriorityWeight(b.priority)
  IN IF priorityDiff # 0 THEN priorityDiff
     ELSE getStatusWeight(a.status) - getStatusWeight(b.status)

\* The comparator of the newest and middle variants, from the status key on.
CompareByStatusThenPriority(a, b) ==
  LET statusDiff == getStatusWeight(a.status) - getStatusWeight(b.status)
  IN IF statusDiff # 0 THEN statusDiff
     ELSE getPriorityWeight(a.priority) - getPriorityWeight(b.priority)

\* The comparator of the oldest variant, from the priority key on.
CompareByRawPriority(a, b) ==
  IF IsNone(a.priority) THEN 1
  ELSE IF IsNone(b.priority) THEN -1
  ELSE Val(a.priority) - Val(b.priority)

CompareNoAssignment(v, a, b) ==
  IF v = "oldest" THEN CompareByRawPriority(a, b)
  ELSE CompareByStatusThenPriority(a, b)

Compare(v, a, b) ==
  IF a.isAssignedToMe /\ ~b.isAssignedToMe THEN -1
  ELSE IF ~a.isAssignedToMe /\ b.isAssignedToMe THEN 1
  ELSE IF v = "oldest" THEN CompareByRawPriority(a, b)
  ELSE CompareByStatusThenPriority(a, b)

----------------------------------------------------------------------------
(* Array.prototype.sort(comparefn) as the runtime of the `node` shebang    *)
(* executes it for arrays shorter than 64 elements: one run is counted at  *)
(* the front (reversed when strictly descending), and the remaining        *)
(* elements are placed by binary insertion.  Positions are 1-based here.   *)

Reverse(a) == [k \in 1..Len(a) |-> a[Len(a) + 1 - k]]

\* The length of the run that starts at position 1 (Len(a) >= 2).
RECURSIVE RunLength(_, _, _, _)
RunLength(v, a, idx, isDescending) ==
  IF idx > Len(a) THEN idx - 1
  ELSE LET order == Compare(v, a[idx], a[idx - 1])
       IN IF (isDescending /\ order >= 0) \/ (~isDescending /\ order < 0)
          THEN idx - 1
          ELSE RunLength(v, a, idx + 1, isDescending)

CountAndMakeRun(v, a) ==
  LET isDescending == Compare(v, a[2], a[1]) < 0
      runLength == RunLength(v, a, 3, isDescending)
  IN [runLength |-> runLength,
      array |-> IF isDescending
                THEN Reverse(SubSeq(a, 1, runLength)) \o SubSeq(a, runLength + 1, Len(a))
                ELSE a]

\* The number of elements of a[1..right] that stay in front of the pivot.
RECURSIVE BinarySearch(_, _, _, _, _)
BinarySearch(v, a, pivot, left, right) ==
  IF left >= right THEN left
  ELSE LET mid == left + ((right - left) \div 2)
           order == Compare(v, pivot, a[mid + 1])
       IN IF order < 0
          THEN BinarySearch(v, a, pivot, left, mid)
          ELSE BinarySearch(v, a, pivot, mid + 1, right)

\* a[1..start] is sorted; insert a[start+1], a[start+2], ...
RECURSIVE BinaryInsertionSort(_, _, _)
BinaryInsertionSort(v, a, start) ==
  IF start >= Len(a) THEN a
  ELSE LET pivot == a[start + 1]
           left == BinarySearch(v, a, pivot, 0, start)
           moved == SubSeq(a, 1, left) \o <<pivot>> \o SubSeq(a, left + 1, start)
                      \o SubSeq(a, start + 2, Len(a))
       IN BinaryInsertionSort(v, moved, start + 1)

ArraySort(v, a) ==
  IF Len(a) < 2 THEN a
  ELSE LET run == CountAndMakeRun(v, a)
       IN BinaryInsertionSort(v, run.array, run.runLength)

\* processedIssues.slice(0, options.limit)
Slice(a, limit) ==
  LET end == IF IsNone(limit) THEN 0
             ELSE IF Val(limit) < 0 THEN Max(Len(a) + Val(limit), 0)
             ELSE Min(Val(limit), Len(a))
  IN SubSeq(a, 1, end)

\* From the response to the printed list.
FocusedIssues(v, opts, issues, viewerId) ==
  Slice(ArraySort(v, ProcessIssues(v, opts, issues, viewerId)), opts.limit)

\* An entry of the log of requests sent to the remote service.
Request(op, input) == [op |-> op, input |-> input]

----------------------------------------------------------------------------
(* Strings.  The names that occur are a finite universe, so toLowerCase    *)
(* and includes are tables over it.                                        *)

\* String.prototype.toLowerCase
ToLowerCase(s) ==
  CASE s = "Staging" -> "staging"
    [] s = "STAGING" -> "staging"
    [] s = "Production" -> "production"
    [] s = "Staging Environment" -> "staging environment"
    [] s = "Production Environment" -> "production environment"
    [] s = "QA" -> "qa"
    [] s = "Bug" -> "bug"
    [] s = "Colby Jordan" -> "colby jordan"
    [] s = "Jacob Lee" -> "jacob lee"
    [] s = "Nic Olby" -> "nic olby"
    [] s = "Todo" -> "todo"
    [] s = "In Review" -> "in review"
    [] s = "Code Review" -> "code review"
    [] s = "Preview" -> "preview"
    [] s = "Done" -> "done"
    [] OTHER -> s

\* The strings of the universe, in lower case, that contain the needle.
Containing(needle) ==
  CASE needle = "colby" -> {"colby jordan", "nicolby@example.com"}
    [] needle = "review" -> {"in review", "code review", "preview"}
    [] OTHER -> {}

\* String.prototype.includes, on lower case strings.
Includes(s, needle) == s \in Containing(needle)

\* Array.prototype.find, given the positions whose element passes the
\* test: the first such element, if any.
Find(a, hits) ==
  IF hits = {} THEN None
  ELSE Some(a[CHOOSE k \in hits : \A h \in hits : k <= h])

\* The elements of a at the positions in keep, in order.
RECURSIVE Keep(_, _, _)
Keep(a, keep, k) ==
  IF k > Len(a) THEN <<>>
  ELSE (IF k \in keep THEN <<a[k]>> ELSE <<>>) \o Keep(a, keep, k + 1)

\* Array.prototype.filter, given the positions whose element passes.
Filter(a, hits) == Keep(a, hits, 1)

----------------------------------------------------------------------------
(* Config files.  A config object maps each key to its value, or to None   *)
(* when the key is absent.                                                 *)

ConfigKeys == {"defaultTeam", "deploymentTarget"}

EmptyConfig == [k \in ConfigKeys |-> None]

NoFile == [exists |-> FALSE, parses |-> FALSE, content |-> EmptyConfig]

ParsedFile(config) == [exists |-> TRUE, parses |-> TRUE, content |-> config]

\* loadLocalConfig: walk up from the working directory; the loop ends
\* when the directory is the filesystem root.  A file that does not parse
\* is warned about and the walk goes on.
RECURSIVE loadLocalConfig(_, _)
loadLocalConfig(files, dir) ==
  IF dir >= Len(files) THEN EmptyConfig
  ELSE IF files[dir].exists /\ files[dir].parses THEN files[dir].content
  ELSE loadLocalConfig(files, dir + 1)

\* The global part of loadConfig.
loadGlobalConfig(file) ==
  IF file.exists /\ file.parses THEN file.content ELSE EmptyConfig

MergeConfigGlobalFirst(globalConfig, localConfig) ==
  [k \in ConfigKeys |-> IF IsNone(globalConfig[k]) THEN localConfig[k] ELSE globalConfig[k]]

\* { ...globalConfig, ...localConfig }
MergeConfig(globalConfig, localConfig) ==
  [k \in ConfigKeys |-> IF IsNone(localConfig[k]) THEN globalConfig[k] ELSE localConfig[k]]

\* loadConfig: only the newest variant reads a local file.
loadConfig(v, file, files) ==
  IF v = "newest"
  THEN MergeConfig(loadGlobalConfig(file), loadLocalConfig(files, 1))
  ELSE loadGlobalConfig(file)

----------------------------------------------------------------------------
(* The done-transition (markTicketDone): what it resolves and computes.    *)

TicketId == "ENG-1"

NoRemote == [issue |-> None, users |-> <<>>, states |-> <<>>, labels |-> <<>>, teams |-> <<>>]

NoLocals ==
  [deploymentTarget |-> None, issue |-> None, colby |-> None, teamId |-> None,
   inReviewState |-> None, environmentLabel |-> None, allLabels |-> <<>>,
   updateResponse |-> None]

AnyTarget == {"staging", "production", "qa"}

ValidTargets == {"staging", "production"}

\* The team labels query returns the labels of the issue's team.
TeamLabels(labels) == Filter(labels, {k \in 1..Len(labels) : labels[k].team})

\* labels { nodes { id name } } of the issue query
IssueLabelNodes(labels) == [k \in 1..Len(labels) |-> [id |-> labels[k].id, name |-> labels[k].name]]

AnyUser(user) == TRUE

\* The test of users.nodes.find
IsColby(user) ==
  \/ Includes(ToLowerCase(user.name), "colby")
  \/ Includes(ToLowerCase(user.email), "colby")

IsReviewStateExactName(state) == ToLowerCase(state.name) = "in review"

\* The test of states.nodes.find
IsReviewState(state) ==
  \/ ToLowerCase(state.name) = "in review"
  \/ Includes(ToLowerCase(state.name), "review")

IsEnvironmentLabelCaseSensitive(label, deploymentTarget) ==
  \/ label.name = deploymentTarget
  \/ ToLowerCase(label.name) = deploymentTarget \o " environment"

\* The test of the two label finds
IsEnvironmentLabel(label, deploymentTarget) ==
  \/ ToLowerCase(label.name) = deploymentTarget
  \/ ToLowerCase(label.name) = deploymentTarget \o " environment"

\* users.nodes.find(...)
FindColby(users) == Find(users, {k \in 1..Len(users) : IsColby(users[k])})

\* states.nodes.find(...)
FindReviewState(states) == Find(states, {k \in 1..Len(states) : IsReviewState(states[k])})

\* teamLabels.find(...) and issueLabels.nodes.find(...)
FindEnvironmentLabel(labels, deploymentTarget) ==
  Find(labels, {k \in 1..Len(labels) : IsEnvironmentLabel(labels[k], deploymentTarget)})

EnvironmentNames ==
  {"staging", "production", "staging environment", "production environment"}

LabelIdsAppendOnly(issueLabels, environmentLabel, allLabels) ==
  [k \in 1..Len(issueLabels) |-> issueLabels[k].id] \o <<environmentLabel.id>>

LabelIdsWithoutOthers(issueLabels, environmentLabel, allLabels) ==
  LET group ==
        {allLabels[k].id :
           k \in {j \in 1..Len(allLabels) :
                    /\ ~IsNone(allLabels[j].parent)
                    /\ \E e \in 1..Len(allLabels) :
                          /\ allLabels[e].id = environmentLabel.id
                          /\ allLabels[e].parent = allLabels[j].parent}}
      kept == Filter(issueLabels,
                     {k \in 1..Len(issueLabels) :
                        \/ issueLabels[k].id = environmentLabel.id
                        \/ /\ issueLabels[k].id \notin group
                           /\ ToLowerCase(issueLabels[k].name) \notin EnvironmentNames})
  IN [k \in 1..Len(kept) |-> kept[k].id] \o <<environmentLabel.id>>

\* labelIds: the issue's labels without those named like a label of the
\* environment label's group (without the literal environment names when
\* it has no group), then the environment label.
LabelIds(issueLabels, environmentLabel, allLabels) ==
  LET environmentLabelFull ==
        Find(allLabels, {k \in 1..Len(allLabels) : allLabels[k].id = environmentLabel.id})
      grouped == ~IsNone(environmentLabelFull) /\ ~IsNone(Val(environmentLabelFull).parent)
      conflictingLabelNames ==
        {ToLowerCase(allLabels[k].name) :
           k \in {j \in 1..Len(allLabels) :
                    /\ ~IsNone(allLabels[j].parent)
                    /\ allLabels[j].parent = Val(environmentLabelFull).parent}}
      kept ==
        IF grouped
        THEN Filter(issueLabels,
                    {k \in 1..Len(issueLabels) :
                       ToLowerCase(issueLabels[k].name) \notin conflictingLabelNames})
        ELSE Filter(issueLabels,
                    {k \in 1..Len(issueLabels) :
                       ToLowerCase(issueLabels[k].name) \notin EnvironmentNames})
  IN [k \in 1..Len(kept) |-> kept[k].id] \o <<environmentLabel.id>>

UpdateInTwoCalls(colby, inReviewState, labelIds) ==
  << [op |-> "UpdateIssue",
      input |-> [id |-> TicketId, assigneeId |-> Some(colby.id), stateId |-> None,
                 labelIds |-> None]],
     [op |-> "UpdateIssue",
      input |-> [id |-> TicketId, assigneeId |-> None, stateId |-> Some(inReviewState.id),
                 labelIds |-> Some(labelIds)]] >>

\* The update: one mutation with the assignee, the state and the labels.
UpdateRequests(colby, inReviewState, labelIds) ==
  << [op |-> "UpdateIssue",
      input |-> [id |-> TicketId, assigneeId |-> Some(colby.id),
                 stateId |-> Some(inReviewState.id), labelIds |-> Some(labelIds)]] >>

UpdateOutcomeAlwaysDone(success) == "done"

\* if (updateResponse.issueUpdate.success) { ... } else { process.exit(1) }
UpdateOutcome(success) == IF success THEN "done" ELSE "failed"

----------------------------------------------------------------------------
(* The command line.  argv is process.argv.slice(2); program.opts() is     *)
(* what commander makes of it.                                             *)

\* The characters of the option-arguments given to --limit.
Chars(s) ==
  CASE s = "-1" -> <<"-", "1">>
    [] s = "0" -> <<"0">>
    [] s = "1" -> <<"1">>
    [] s = "2" -> <<"2">>
    [] s = "3" -> <<"3">>
    [] s = "5" -> <<"5">>
    [] s = "10" -> <<"1", "0">>
    [] s = "11" -> <<"1", "1">>
    [] s = "x" -> <<"x">>

\* The value of a character as a digit; 36 when it is no digit in any radix.
DigitValue(c) ==
  CASE c = "0" -> 0 [] c = "1" -> 1 [] c = "2" -> 2 [] c = "3" -> 3
    [] c = "4" -> 4 [] c = "5" -> 5 [] c = "6" -> 6 [] c = "7" -> 7
    [] c = "8" -> 8 [] c = "9" -> 9 [] c = "x" -> 33
    [] OTHER -> 36

\* The length of the longest prefix of cs made of digits of radix R.
RECURSIVE DigitsPrefix(_, _)
DigitsPrefix(cs, R) ==
  IF cs = <<>> \/ DigitValue(Head(cs)) >= R THEN 0
  ELSE 1 + DigitsPrefix(Tail(cs), R)

\* The number the digits cs denote in radix R.
RECURSIVE DigitsNumber(_, _)
DigitsNumber(cs, R) ==
  IF cs = <<>> THEN 0
  ELSE DigitsNumber(SubSeq(cs, 1, Len(cs) - 1), R) * R + DigitValue(cs[Len(cs)])

\* parseInt(string, radix): an absent (or NaN) radix and radix 0 mean 10,
\* a radix outside 2..36 gives NaN, and so does a string that does not
\* start with a digit of the radix.  NaN is the absent value.
ParseInt(string, radix) ==
  LET cs == Chars(string)
      negative == cs # <<>> /\ Head(cs) = "-"
      body == IF negative THEN Tail(cs) ELSE cs
      R == IF IsNone(radix) \/ Val(radix) = 0 THEN 10 ELSE Val(radix)
      n == DigitsPrefix(body, R)
  IN IF R < 2 \/ R > 36 \/ n = 0 THEN None
     ELSE LET number == DigitsNumber(SubSeq(body, 1, n), R)
          IN Some(IF negative THEN 0 - number ELSE number)

\* The default of --limit: 2 in the ranking command, 50 in the general fetch.
RankDefaultLimit == 2
FetchDefaultLimit == 50

\* program.opts() before any argument is read.
DefaultOptions(v) ==
  IF v = "general"
  THEN [limit |-> Some(FetchDefaultLimit), myIssues |-> FALSE]
  ELSE [limit |-> Some(RankDefaultLimit), includeCommented |-> FALSE,
        backlog |-> FALSE, team |-> None]

\* The argument parser of --limit.  commander calls it with the
\* option-argument and the previous value of the option: `parseInt` given
\* as the parser itself takes the previous value as its radix, while
\* (val) => parseInt(val) drops it.
LimitArg(v, value, previous) ==
  IF v \in {"newest", "middle"} THEN ParseInt(value, None)
  ELSE ParseInt(value, previous)

\* program.parse: the options are read from left to right.
RECURSIVE ParseOptions(_, _, _, _)
ParseOptions(v, args, k, acc) ==
  IF k > Len(args) THEN acc
  ELSE CASE args[k] = "--limit" /\ k < Len(args) ->
              ParseOptions(v, args, k + 2,
                           [acc EXCEPT !.limit = LimitArg(v, args[k + 1], acc.limit)])
         [] args[k] = "--team" /\ k < Len(args) /\ v \in {"newest", "middle"} ->
              ParseOptions(v, args, k + 2, [acc EXCEPT !.team = Some(args[k + 1])])
         [] args[k] = "--include-commented" /\ v = "newest" ->
              ParseOptions(v, args, k + 1, [acc EXCEPT !.includeCommented = TRUE])
         [] args[k] = "--backlog" /\ v = "newest" ->
              ParseOptions(v, args, k + 1, [acc EXCEPT !.backlog = TRUE])
         [] args[k] = "--my-issues" /\ v = "general" ->
              ParseOptions(v, args, k + 1, [acc EXCEPT !.myIssues = TRUE])
         [] OTHER -> ParseOptions(v, args, k + 1, acc)

\* program.opts()
opts(v, args) == ParseOptions(v, args, 1, DefaultOptions(v))

\* const config = loadConfig();
Config == loadConfig(variant, globalFile, localFiles)

----------------------------------------------------------------------------
(* One invocation of the ranking command.                                  *)

NoResponse == [viewer |-> NoUser, issues |-> <<>>]

\* const teamFilter = options.team || config.defaultTeam;
\* The oldest variant has no teams.
TeamFilter(v, o, config) ==
  IF v = "oldest" THEN None
  ELSE IF ~IsNone(o.team) THEN o.team ELSE config.defaultTeam

\* The query as the remote service sees it: issueFilter.team is set when
\* there is a team filter.
RankingRequest ==
  Request("GetIssuesAndViewer", [team |-> TeamFilter(variant, options, Config)])

\* After program.parse the middle variant calls fetchPriorityTickets itself
\* when there are no arguments, although commander has already run it as
\* the action of the program.
CallsTwice == variant = "middle" /\ argv = <<>>

\* if (!apiKey) { ...; process.exit(1); }
MissingApiKey ==
  /\ command = "rank"
  /\ pc = "start"
  /\ ~apiKey
  /\ pc' = "failed"
  /\ UNCHANGED <<variant, apiKey, options, remoteIssues, request, response, output>>
  /\ UNCHANGED <<command, globalFile, localFiles, remote, locals, sent, argv, lastRun>>

\* The query is sent.
SendRequest ==
  /\ command = "rank"
  /\ pc = "start"
  /\ apiKey
  /\ request' = BuildRequest(variant, options)
  /\ sent' = Append(sent, RankingRequest)
  /\ pc' = IF CallsTwice THEN "called" ELSE "awaiting"
  /\ UNCHANGED <<variant, apiKey, options, remoteIssues, response, output>>
  /\ UNCHANGED <<command, globalFile, localFiles, remote, locals, argv, lastRun>>

\* The response arrives; the batch is filtered, sorted, cut and printed.
ReceiveResponse ==
  /\ command = "rank"
  /\ pc = "awaiting"
  /\ LET batch == RemotePage(remoteIssues, request)
     IN /\ response' = [viewer |-> Me, issues |-> batch]
        /\ output' = output \o FocusedIssues(variant, options, batch, Me)
  /\ pc' = "done"
  /\ UNCHANGED <<variant, apiKey, options, remoteIssues, request>>
  /\ UNCHANGED <<command, globalFile, localFiles, remote, locals, sent, argv, lastRun>>

\* The request throws: catch (error) { ...; process.exit(1); }
RequestFails ==
  /\ command = "rank"
  /\ pc = "awaiting"
  /\ pc' = "failed"
  /\ UNCHANGED <<variant, apiKey, options, remoteIssues, request, response, output>>
  /\ UNCHANGED <<command, globalFile, localFiles, remote, locals, sent, argv, lastRun>>

Next == MissingApiKey \/ SendRequest \/ ReceiveResponse \/ RequestFails

\* if (!process.argv.slice(2).length) { fetchPriorityTickets(program.opts()); }
\* The second call sends its query before any response arrives.
SecondCall ==
  /\ command = "rank"
  /\ pc = "called"
  /\ sent' = Append(sent, RankingRequest)
  /\ pc' = "awaiting both"
  /\ UNCHANGED <<variant, apiKey, options, remoteIssues, request, response, output>>
  /\ UNCHANGED <<command, globalFile, localFiles, remote, locals, argv, lastRun>>

\* The response to one of the two calls arrives and its list is printed.
ReceiveOneOfTwo ==
  /\ command = "rank"
  /\ pc = "awaiting both"
  /\ LET batch == RemotePage(remoteIssues, request)
     IN /\ response' = [viewer |-> Me, issues |-> batch]
        /\ output' = output \o FocusedIssues(variant, options, batch, Me)
  /\ pc' = "awaiting"
  /\ UNCHANGED <<variant, apiKey, options, remoteIssues, request>>
  /\ UNCHANGED <<command, globalFile, localFiles, remote, locals, sent, argv, lastRun>>

\* One of the two requests throws: process.exit(1) ends the other call too.
OneOfTwoFails ==
  /\ command = "rank"
  /\ pc = "awaiting both"
  /\ pc' = "failed"
  /\ UNCHANGED <<variant, apiKey, options, remoteIssues, request, response, output>>
  /\ UNCHANGED <<command, globalFile, localFiles, remote, locals, sent, argv, lastRun>>

\* The program of the ranking command, from program.parse to its exit.
NextProgram == Next \/ SecondCall \/ ReceiveOneOfTwo \/ OneOfTwoFails

----------------------------------------------------------------------------
(* One invocation of the done-transition.  After each request the command  *)
(* waits for its response; pc names the request in flight.                 *)

DoneFrame == <<variant, apiKey, options, remoteIssues, request, response, output,
               command, globalFile, localFiles, remote, argv, lastRun>>

\* if (!apiKey) { ...; process.exit(1); }
DoneMissingApiKey ==
  /\ command = "done" /\ pc = "start"
  /\ ~apiKey
  /\ pc' = "failed"
  /\ UNCHANGED <<DoneFrame, locals, sent>>

\* if (!config.deploymentTarget) { ...; process.exit(1); }
DoneNoDeploymentTarget ==
  /\ command = "done" /\ pc = "start"
  /\ apiKey
  /\ IsNone(Config.deploymentTarget)
  /\ pc' = "failed"
  /\ UNCHANGED <<DoneFrame, locals, sent>>

\* The target is neither staging nor production: process.exit(1).
DoneInvalidDeploymentTarget ==
  /\ command = "done" /\ pc = "start"
  /\ apiKey
  /\ ~IsNone(Config.deploymentTarget)
  /\ ToLowerCase(Val(Config.deploymentTarget)) \notin ValidTargets
  /\ pc' = "failed"
  /\ UNCHANGED <<DoneFrame, locals, sent>>

\* The issue query is sent.
DoneGetIssue ==
  /\ command = "done" /\ pc = "start"
  /\ apiKey
  /\ ~IsNone(Config.deploymentTarget)
  /\ ToLowerCase(Val(Config.deploymentTarget)) \in ValidTargets
  /\ locals' = [locals EXCEPT !.deploymentTarget = Some(ToLowerCase(Val(Config.deploymentTarget)))]
  /\ sent' = Append(sent, Request("GetIssue", [id |-> TicketId]))
  /\ pc' = "GetIssue"
  /\ UNCHANGED DoneFrame

\* if (!issueResponse.issue) { ...; process.exit(1); }
DoneIssueNotFound ==
  /\ command = "done" /\ pc = "GetIssue"
  /\ IsNone(remote.issue)
  /\ pc' = "failed"
  /\ UNCHANGED <<DoneFrame, locals, sent>>

\* The issue is there; the users query is sent.
DoneGetUsers ==
  /\ command = "done" /\ pc = "GetIssue"
  /\ ~IsNone(remote.issue)
  /\ locals' = [locals EXCEPT !.issue =
                  Some([id |-> Val(remote.issue).id,
                        labels |-> IssueLabelNodes(Val(remote.issue).labels)])]
  /\ sent' = Append(sent, Request("GetUsers", <<>>))
  /\ pc' = "GetUsers"
  /\ UNCHANGED DoneFrame

\* if (!colby) { ...; process.exit(1); }
DoneColbyNotFound ==
  /\ command = "done" /\ pc = "GetUsers"
  /\ IsNone(FindColby(remote.users))
  /\ pc' = "failed"
  /\ UNCHANGED <<DoneFrame, locals, sent>>

\* The first matching user is taken; the team query is sent.
DoneGetIssueTeam ==
  /\ command = "done" /\ pc = "GetUsers"
  /\ ~IsNone(FindColby(remote.users))
  /\ locals' = [locals EXCEPT !.colby = FindColby(remote.users)]
  /\ sent' = Append(sent, Request("GetIssueTeam", [id |-> TicketId]))
  /\ pc' = "GetIssueTeam"
  /\ UNCHANGED DoneFrame

\* teamId = teamResponse.issue.team.id; the states query is sent.
DoneGetStates ==
  /\ command = "done" /\ pc = "GetIssueTeam"
  /\ locals' = [locals EXCEPT !.teamId = Some(Val(remote.issue).team)]
  /\ sent' = Append(sent, Request("GetStates", [teamId |-> Val(remote.issue).team]))
  /\ pc' = "GetStates"
  /\ UNCHANGED DoneFrame

\* if (!inReviewState) { ...; process.exit(1); }
DoneReviewStateNotFound ==
  /\ command = "done" /\ pc = "GetStates"
  /\ IsNone(FindReviewState(remote.states))
  /\ pc' = "failed"
  /\ UNCHANGED <<DoneFrame, locals, sent>>

\* The first matching state is taken; the team labels query is sent.
DoneGetLabels ==
  /\ command = "done" /\ pc = "GetStates"
  /\ ~IsNone(FindReviewState(remote.states))
  /\ locals' = [locals EXCEPT !.inReviewState = FindReviewState(remote.states)]
  /\ sent' = Append(sent, Request("GetLabels", [teamId |-> Val(locals.teamId)]))
  /\ pc' = "GetLabels"
  /\ UNCHANGED DoneFrame

\* The finds of the environment label, for the target of this run.
TeamEnvironmentLabel ==
  FindEnvironmentLabel(TeamLabels(remote.labels), Val(locals.deploymentTarget))

WorkspaceEnvironmentLabel ==
  FindEnvironmentLabel(remote.labels, Val(locals.deploymentTarget))

\* From the resolved environment label to the update mutation.
DoneSendUpdate(environmentLabel, allLabels) ==
  /\ locals' = [locals EXCEPT !.environmentLabel = Some(environmentLabel),
                              !.allLabels = allLabels]
  /\ sent' = sent \o UpdateRequests(Val(locals.colby), Val(locals.inReviewState),
                                    LabelIds(Val(locals.issue).labels, environmentLabel, allLabels))
  /\ pc' = "UpdateIssue"
  /\ UNCHANGED DoneFrame

\* The team has the environment label.
DoneUpdateWithTeamLabel ==
  /\ command = "done" /\ pc = "GetLabels"
  /\ ~IsNone(TeamEnvironmentLabel)
  /\ DoneSendUpdate(Val(TeamEnvironmentLabel),
                    TeamLabels(remote.labels))

\* The team does not have it: the workspace labels query is sent.
DoneGetWorkspaceLabels ==
  /\ command = "done" /\ pc = "GetLabels"
  /\ IsNone(TeamEnvironmentLabel)
  /\ locals' = [locals EXCEPT !.allLabels = TeamLabels(remote.labels)]
  /\ sent' = Append(sent, Request("GetWorkspaceLabels", <<>>))
  /\ pc' = "GetWorkspaceLabels"
  /\ UNCHANGED DoneFrame

\* if (!workspaceLabel) { ...; process.exit(1); }
DoneLabelNotFound ==
  /\ command = "done" /\ pc = "GetWorkspaceLabels"
  /\ IsNone(WorkspaceEnvironmentLabel)
  /\ pc' = "failed"
  /\ UNCHANGED <<DoneFrame, locals, sent>>

\* The workspace has the environment label.
DoneUpdateWithWorkspaceLabel ==
  /\ command = "done" /\ pc = "GetWorkspaceLabels"
  /\ ~IsNone(WorkspaceEnvironmentLabel)
  /\ DoneSendUpdate(Val(WorkspaceEnvironmentLabel), remote.labels)

\* The update answers, with success or without.
DoneUpdateResponse ==
  /\ command = "done" /\ pc = "UpdateIssue"
  /\ \E success \in BOOLEAN :
        /\ locals' = [locals EXCEPT !.updateResponse = Some([success |-> success])]
        /\ pc' = UpdateOutcome(success)
  /\ UNCHANGED <<DoneFrame, sent>>

DoneRequests ==
  {"GetIssue", "GetUsers", "GetIssueTeam", "GetStates", "GetLabels",
   "GetWorkspaceLabels", "UpdateIssue"}

\* A request throws: catch (error) { ...; process.exit(1); }
DoneRequestFails ==
  /\ command = "done" /\ pc \in DoneRequests
  /\ pc' = "failed"
  /\ UNCHANGED <<DoneFrame, locals, sent>>

NextDone ==
  \/ DoneMissingApiKey \/ DoneNoDeploymentTarget \/ DoneInvalidDeploymentTarget
  \/ DoneGetIssue \/ DoneIssueNotFound \/ DoneGetUsers \/ DoneColbyNotFound
  \/ DoneGetIssueTeam \/ DoneGetStates \/ DoneReviewStateNotFound \/ DoneGetLabels
  \/ DoneUpdateWithTeamLabel \/ DoneGetWorkspaceLabels \/ DoneLabelNotFound
  \/ DoneUpdateWithWorkspaceLabel \/ DoneUpdateResponse \/ DoneRequestFails

----------------------------------------------------------------------------
(* The teams command: listTeams, and setDefaultTeam with --set-default.    *)

TeamsFrame == <<variant, apiKey, options, remoteIssues, request, response,
                command, localFiles, remote, locals, argv, lastRun>>

\* options.setDefault chooses between the two handlers.
IsListTeams == command = "teams" /\ IsNone(options.setDefault)
IsSetDefault == command = "teams" /\ ~IsNone(options.setDefault)

\* listTeams: if (!apiKey) { ...; process.exit(1); }
ListTeamsMissingApiKey ==
  /\ IsListTeams /\ pc = "start"
  /\ ~apiKey
  /\ pc' = "failed"
  /\ UNCHANGED <<TeamsFrame, globalFile, output, sent>>

\* listTeams: linearClient.teams() is sent.
ListTeamsGetTeams ==
  /\ IsListTeams /\ pc = "start"
  /\ apiKey
  /\ sent' = Append(sent, Request("teams", <<>>))
  /\ pc' = "teams"
  /\ UNCHANGED <<TeamsFrame, globalFile, output>>

ListTeamsPrintSavesConfig ==
  /\ IsListTeams /\ pc = "teams"
  /\ output' = [k \in 1..Len(remote.teams) |->
                  [key |-> remote.teams[k].key, name |-> remote.teams[k].name,
                   isDefault |-> Config.defaultTeam = Some(remote.teams[k].key)]]
  /\ globalFile' = [exists |-> TRUE, parses |-> TRUE, content |-> Config]
  /\ pc' = "done"
  /\ UNCHANGED <<TeamsFrame, sent>>

\* listTeams: the teams are printed, the default team marked.
ListTeamsPrint ==
  /\ IsListTeams /\ pc = "teams"
  /\ output' = [k \in 1..Len(remote.teams) |->
                  [key |-> remote.teams[k].key, name |-> remote.teams[k].name,
                   isDefault |-> Config.defaultTeam = Some(remote.teams[k].key)]]
  /\ pc' = "done"
  /\ UNCHANGED <<TeamsFrame, globalFile, sent>>

\* listTeams: catch (error) { ...; process.exit(1); }
ListTeamsRequestFails ==
  /\ IsListTeams /\ pc = "teams"
  /\ pc' = "failed"
  /\ UNCHANGED <<TeamsFrame, globalFile, output, sent>>

\* saveConfig: the file holds the JSON text of the config.
saveConfig(config) == ParsedFile(config)

SetDefaultSavesBeforeKeyCheck ==
  /\ IsSetDefault /\ pc = "start"
  /\ ~apiKey
  /\ globalFile' = saveConfig([Config EXCEPT !["defaultTeam"] = options.setDefault])
  /\ pc' = "failed"
  /\ UNCHANGED <<TeamsFrame, output, sent>>

\* setDefaultTeam: if (!apiKey) { ...; process.exit(1); }
SetDefaultMissingApiKey ==
  /\ IsSetDefault /\ pc = "start"
  /\ ~apiKey
  /\ pc' = "failed"
  /\ UNCHANGED <<TeamsFrame, globalFile, output, sent>>

\* setDefaultTeam: linearClient.teams() is sent.
SetDefaultGetTeams ==
  /\ IsSetDefault /\ pc = "start"
  /\ apiKey
  /\ sent' = Append(sent, Request("teams", <<>>))
  /\ pc' = "teams"
  /\ UNCHANGED <<TeamsFrame, globalFile, output>>

\* teams.nodes.find(t => t.key === teamKey)
FindTeam(teams, teamKey) == Find(teams, {k \in 1..Len(teams) : teams[k].key = teamKey})

\* setDefaultTeam: if (!team) { ...; process.exit(1); }
SetDefaultTeamNotFound ==
  /\ IsSetDefault /\ pc = "teams"
  /\ IsNone(FindTeam(remote.teams, Val(options.setDefault)))
  /\ pc' = "failed"
  /\ UNCHANGED <<TeamsFrame, globalFile, output, sent>>

\* setDefaultTeam: the loaded config with the new default team is saved;
\* success is printed when the file was written.
SetDefaultSave ==
  /\ IsSetDefault /\ pc = "teams"
  /\ ~IsNone(FindTeam(remote.teams, Val(options.setDefault)))
  /\ \E written \in BOOLEAN :
        /\ globalFile' =
             IF written
             THEN saveConfig([Config EXCEPT !["defaultTeam"] = options.setDefault])
             ELSE globalFile
        /\ output' = IF written
                     THEN <<Val(FindTeam(remote.teams, Val(options.setDefault)))>>
                     ELSE <<>>
  /\ pc' = "done"
  /\ UNCHANGED <<TeamsFrame, sent>>

\* setDefaultTeam: catch (error) { ...; process.exit(1); }
SetDefaultRequestFails ==
  /\ IsSetDefault /\ pc = "teams"
  /\ pc' = "failed"
  /\ UNCHANGED <<TeamsFrame, globalFile, output, sent>>

\* The user runs the program again after set-default has ended: the
\* ranking command without --team, or the teams listing.  The config files
\* and the remote service are as the earlier invocation left them.
NextInvocation ==
  /\ IsSetDefault /\ pc = "done"
  /\ \E c \in {"rank", "teams"} :
        /\ command' = c
        /\ argv' = IF c = "rank" THEN <<"--limit", "1">> ELSE <<"teams">>
        /\ options' = IF c = "rank" THEN opts(variant, argv') ELSE [setDefault |-> None]
  /\ lastRun' = Some([argv |-> argv, output |-> output])
  /\ pc' = "start"
  /\ output' = <<>>
  /\ UNCHANGED <<variant, apiKey, remoteIssues, request, response,
                 globalFile, localFiles, remote, locals, sent>>

NextTeams ==
  \/ ListTeamsMissingApiKey \/ ListTeamsGetTeams \/ ListTeamsPrint \/ ListTeamsRequestFails
  \/ SetDefaultMissingApiKey \/ SetDefaultGetTeams \/ SetDefaultTeamNotFound
  \/ SetDefaultSave \/ SetDefaultRequestFails

----------------------------------------------------------------------------
(* The general fetch (fetchLinearTickets of src/unnamed/part_001).         *)

FetchFrame == <<variant, apiKey, options, remoteIssues, request, response,
                command, globalFile, localFiles, remote, locals, argv, lastRun>>

\* if (!apiKey) { ...; process.exit(1); }
FetchMissingApiKey ==
  /\ command = "fetch" /\ pc = "start"
  /\ ~apiKey
  /\ pc' = "failed"
  /\ UNCHANGED <<FetchFrame, output, sent>>

\* viewer.assignedIssues or issues is requested, with first: options.limit.
FetchGetIssues ==
  /\ command = "fetch" /\ pc = "start"
  /\ apiKey
  /\ sent' = Append(sent, Request(IF options.myIssues THEN "assignedIssues" ELSE "issues",
                                  [first |-> options.limit]))
  /\ pc' = "issues"
  /\ UNCHANGED <<FetchFrame, output>>

\* The page sizes the service may answer the request with: a NaN `first`
\* is sent as null, which leaves the size of the page to the service.
PageSizes(issues, req) ==
  IF IsNone(req.input.first) THEN 0..Len(issues) ELSE {Val(req.input.first)}

\* The page the service answers the request with.
FetchPage(issues, req, first) ==
  LET mine == IF req.op = "assignedIssues"
              THEN Filter(issues, {k \in 1..Len(issues) : issues[k].assignee = Me})
              ELSE issues
  IN SubSeq(mine, 1, Min(first, Len(mine)))

\* The issues are formatted and printed.
FetchPrint ==
  /\ command = "fetch" /\ pc = "issues"
  /\ \E first \in PageSizes(remoteIssues, sent[Len(sent)]) :
     LET issues == FetchPage(remoteIssues, sent[Len(sent)], first)
     IN output' = [k \in 1..Len(issues) |->
                     [id |-> issues[k].id, priority |-> issues[k].priority,
                      status |-> issues[k].state.name, assignee |-> issues[k].assignee]]
  /\ pc' = "done"
  /\ UNCHANGED <<FetchFrame, sent>>

\* catch (error) { ...; process.exit(1); }
FetchRequestFails ==
  /\ command = "fetch" /\ pc = "issues"
  /\ pc' = "failed"
  /\ UNCHANGED <<FetchFrame, output, sent>>

NextFetch == FetchMissingApiKey \/ FetchGetIssues \/ FetchPrint \/ FetchRequestFails

\* Any command of any variant.
NextCommand == Next \/ NextDone \/ NextTeams \/ NextFetch

----------------------------------------------------------------------------
(* Inputs.                                                                 *)

RECURSIVE SeqsUpTo(_, _)
SeqsUpTo(S, n) ==
  IF n = 0 THEN {<<>>}
  ELSE LET shorter == SeqsUpTo(S, n - 1)
       IN shorter \cup {Append(q, x) : q \in {r \in shorter : Len(r) = n - 1}, x \in S}

\* Issues get their position in the remote list as id.
WithIds(profiles) ==
  [k \in 1..Len(profiles) |->
     [id |-> k, priority |-> profiles[k].priority, state |-> profiles[k].state,
      assignee |-> profiles[k].assignee, comments |-> profiles[k].comments]]

Todo == [name |-> "Todo", type |-> "unstarted"]
InReview == [name |-> "In Review", type |-> "started"]
Shipped == [name |-> "Shipped", type |-> "completed"]
WontFix == [name |-> "Won't Fix", type |-> "canceled"]
Done == [name |-> "Done", type |-> "completed"]
ReadyToDeploy == [name |-> "Ready to Deploy", type |-> "started"]
InProgress == [name |-> "In Progress", type |-> "started"]
Backlog == [name |-> "Backlog", type |-> "backlog"]
Triage == [name |-> "Triage", type |-> "triage"]

\* The limits `parseInt` can produce: NaN and the integers.
Limits == {None} \cup {Some(n) : n \in -1..MaxLimit}

\* The command lines of the three variants: only the newest one has the
\* --include-commented and --backlog flags.
OptionSets(commented) ==
  {[v |-> "newest",
    o |-> [limit |-> l, includeCommented |-> c, backlog |-> b, team |-> None]] :
      l \in Limits, c \in commented, b \in BOOLEAN}
  \cup
  {[v |-> w,
    o |-> [limit |-> l, includeCommented |-> FALSE, backlog |-> FALSE, team |-> None]] :
      l \in Limits, w \in {"middle", "oldest"}}

\* The option-arguments given to --limit.
LimitTexts == {"-1", "0", "1", "2", "3", "5", "10", "11", "x"}

\* The command lines of the ranking command of a variant: each option at
\* most once.
CommandLines(v, teams) ==
  {limit \o commented \o backlog \o team :
     limit \in {<<>>} \cup {<<"--limit", t>> : t \in LimitTexts},
     commented \in IF v = "newest" THEN {<<>>, <<"--include-commented">>} ELSE {<<>>},
     backlog \in IF v = "newest" THEN {<<>>, <<"--backlog">>} ELSE {<<>>},
     team \in IF v = "oldest" THEN {<<>>} ELSE {<<>>} \cup {<<"--team", t>> : t \in teams}}

InitWith(batches, optionSets) ==
  /\ command = "rank"
  /\ globalFile = NoFile
  /\ localFiles = <<NoFile>>
  /\ remote = NoRemote
  /\ locals = NoLocals
  /\ sent = <<>>
  /\ lastRun = None
  /\ pc = "start"
  /\ request = NoRequest
  /\ response = NoResponse
  /\ output = <<>>
  /\ apiKey \in BOOLEAN
  /\ \E vo \in optionSets : variant = vo.v /\ options = vo.o
  \* a command line, not the empty one, that program.opts() reads as these
  \* options
  /\ argv \in {a \in CommandLines(variant, {}) : a # <<>> /\ opts(variant, a) = options}
  /\ \E b \in batches : remoteIssues = WithIds(b)

\* Ranking inputs: priority, assignee and status vary; no comments.
RankProfiles ==
  [priority : {None, Some(0), Some(1), Some(4)},
   assignee : {Me, NoUser, Other},
   state : {Todo, InReview},
   comments : {<<>>}]

\* The example of the specification's testable properties.
ExampleBatch ==
  << [priority |-> Some(2), assignee |-> Me, state |-> Todo, comments |-> <<>>],
     [priority |-> Some(1), assignee |-> NoUser, state |-> Todo, comments |-> <<>>],
     [priority |-> Some(0), assignee |-> Me, state |-> Todo, comments |-> <<>>] >>

Init == InitWith(SeqsUpTo(RankProfiles, MaxIssues) \cup {ExampleBatch}, OptionSets({FALSE}))

Spec == Init /\ [][Next]_vars

\* Comment inputs: one issue whose comments vary in author, age and order.
CommentTimes ==
  {Now - 30 * Minute, Now - TwoHours, Now - 3 * Hour, Now - FourHours, Now - 5 * Hour}

CommentUniverse == [user : {Me, Other, NoUser}, createdAt : CommentTimes]

CommentProfiles ==
  [priority : {Some(1)},
   assignee : {Me, NoUser},
   state : {Todo},
   comments : SeqsUpTo(CommentUniverse, MaxComments)]

InitComments == InitWith({<<p>> : p \in CommentProfiles}, OptionSets(BOOLEAN))

SpecComments == InitComments /\ [][Next]_vars

\* Workflow state inputs: open and closed states, with and without the
\* names the newer variants exclude.
StateProfiles ==
  [priority : {Some(1), Some(4)},
   assignee : {Me},
   state : {Todo, InReview, Shipped, WontFix, Done, ReadyToDeploy},
   comments : {<<>>}]

InitStates == InitWith(SeqsUpTo(StateProfiles, MaxIssues), OptionSets({FALSE}))

SpecStates == InitStates /\ [][Next]_vars

\* Status inputs: the four ranked status names and one the comparator does
\* not list.
StatusProfiles ==
  [priority : {Some(1), Some(4)},
   assignee : {Me, NoUser},
   state : {InReview, InProgress, Todo, Backlog, Triage},
   comments : {<<>>}]

InitStatus == InitWith(SeqsUpTo(StatusProfiles, MaxIssues), OptionSets({FALSE}))

SpecStatus == InitStatus /\ [][Next]_vars

----------------------------------------------------------------------------
(* Inputs of the done-transition.                                          *)

DistinctSeqsUpTo(S, n) ==
  {q \in SeqsUpTo(S, n) : \A i, j \in 1..Len(q) : i < j => q[i] # q[j]}

SubSeqs(a) == {Keep(a, keep, 1) : keep \in SUBSET (1..Len(a))}

Colby == [id |-> "u-colby", name |-> "Colby Jordan", email |-> "cj@example.com"]
Jacob == [id |-> "u-jacob", name |-> "Jacob Lee", email |-> "jacob@example.com"]
NicOlby == [id |-> "u-nic", name |-> "Nic Olby", email |-> "nicolby@example.com"]

UserUniverse == {Colby, Jacob, NicOlby}

\* A workflow state as the states query returns it.
StateNode(state) == [id |-> "state:" \o state.name, name |-> state.name, type |-> state.type]

CodeReview == [name |-> "Code Review", type |-> "started"]

Preview == [name |-> "Preview", type |-> "started"]

StateUniverse == {StateNode(s) : s \in {Todo, InReview, CodeReview, Preview, Done}}

\* Labels: the parent is the id of the group label, team tells the labels
\* of the issue's team from the labels of the workspace.
TeamStaging ==
  [id |-> "l-staging", name |-> "Staging", parent |-> Some("g-environment"), team |-> TRUE]
TeamProduction ==
  [id |-> "l-production", name |-> "production", parent |-> Some("g-environment"), team |-> TRUE]
PlainStagingEnvironment ==
  [id |-> "l-staging-env", name |-> "Staging Environment", parent |-> None, team |-> TRUE]
PlainProduction ==
  [id |-> "l-plain-production", name |-> "Production", parent |-> None, team |-> FALSE]
Bug == [id |-> "l-bug", name |-> "Bug", parent |-> None, team |-> TRUE]
WorkspaceStaging ==
  [id |-> "l-ws-staging", name |-> "STAGING", parent |-> Some("g-ws-environment"), team |-> FALSE]
WorkspaceQA ==
  [id |-> "l-ws-qa", name |-> "QA", parent |-> Some("g-ws-environment"), team |-> FALSE]

LabelUniverse ==
  {TeamStaging, TeamProduction, PlainStagingEnvironment, PlainProduction, Bug,
   WorkspaceStaging, WorkspaceQA}

\* The label lists the service can hold: names are unique, whatever the case.
LabelWorlds ==
  {w \in DistinctSeqsUpTo(LabelUniverse, MaxLabels) :
     \A i, j \in 1..Len(w) : i < j => ToLowerCase(w[i].name) # ToLowerCase(w[j].name)}

LocalTarget(target) == ParsedFile([EmptyConfig EXCEPT !["deploymentTarget"] = Some(target)])

\* The config files: [global, local] with the target absent, valid, valid
\* in another case and in a directory above, invalid, and global only.
TargetConfigs ==
  { [global |-> NoFile, local |-> <<NoFile, NoFile>>],
    [global |-> NoFile, local |-> <<LocalTarget("staging"), NoFile>>],
    [global |-> NoFile, local |-> <<NoFile, LocalTarget("Production"), NoFile>>],
    [global |-> NoFile, local |-> <<LocalTarget("QA"), NoFile>>],
    [global |-> LocalTarget("production"), local |-> <<NoFile>>] }

ValidTargetConfigs ==
  {c \in TargetConfigs :
     LET target == loadConfig("newest", c.global, c.local).deploymentTarget
     IN ~IsNone(target) /\ ToLowerCase(Val(target)) \in ValidTargets}

RemoteIssue(labels) == Some([id |-> TicketId, team |-> "team-eng", labels |-> labels])

InitDoneWith(keys, configs, remotes) ==
  /\ variant = "newest"
  /\ command = "done"
  /\ options = [verbose |-> FALSE]
  /\ argv = <<"done", TicketId>>
  /\ remoteIssues = <<>>
  /\ request = NoRequest
  /\ response = NoResponse
  /\ output = <<>>
  /\ locals = NoLocals
  /\ sent = <<>>
  /\ lastRun = None
  /\ pc = "start"
  /\ apiKey \in keys
  /\ \E c \in configs : globalFile = c.global /\ localFiles = c.local
  /\ remote \in remotes

\* Label inputs: every label list and every set of labels on the issue,
\* with the reviewer and the review state in place.
LabelRemotes ==
  UNION {{[issue |-> RemoteIssue(carried), users |-> <<Jacob, Colby>>,
           states |-> <<StateNode(Todo), StateNode(InReview)>>, labels |-> w,
           teams |-> <<>>] : carried \in SubSeqs(w)} : w \in LabelWorlds}

\* Flow inputs: the issue is there or not, the users and the workflow
\* states vary, the labels are fixed.
FlowRemotes ==
  {[issue |-> i, users |-> u, states |-> s, labels |-> <<TeamStaging, TeamProduction>>,
    teams |-> <<>>] :
     i \in {None, RemoteIssue(<<TeamStaging>>)},
     u \in DistinctSeqsUpTo(UserUniverse, MaxUsers),
     s \in DistinctSeqsUpTo(StateUniverse, MaxStates)}

InitDone ==
  \/ InitDoneWith({TRUE}, ValidTargetConfigs, LabelRemotes)
  \/ InitDoneWith(BOOLEAN, TargetConfigs, FlowRemotes)

SpecDone == InitDone /\ [][NextDone]_vars

----------------------------------------------------------------------------
(* Inputs of the teams command and of the general fetch; all commands.     *)

Engineering == [key |-> "ENG", name |-> "Engineering"]
Operations == [key |-> "OPS", name |-> "Operations"]

TeamUniverse == {Engineering, Operations}

DefaultTeam(key) == ParsedFile([EmptyConfig EXCEPT !["defaultTeam"] = Some(key)])

Unparsable == [exists |-> TRUE, parses |-> FALSE, content |-> EmptyConfig]

InitTeams ==
  /\ command = "teams"
  /\ variant \in {"newest", "middle"}
  /\ options \in {[setDefault |-> k] : k \in {None, Some("ENG"), Some("OPS"), Some("WEB")}}
  /\ argv = IF IsNone(options.setDefault) THEN <<"teams">>
            ELSE <<"teams", "--set-default", Val(options.setDefault)>>
  /\ remoteIssues = <<>>
  /\ request = NoRequest
  /\ response = NoResponse
  /\ output = <<>>
  /\ locals = NoLocals
  /\ sent = <<>>
  /\ lastRun = None
  /\ pc = "start"
  /\ apiKey \in BOOLEAN
  /\ globalFile \in {NoFile, Unparsable, DefaultTeam("ENG")}
  /\ localFiles \in {<<NoFile>>, <<LocalTarget("staging"), NoFile>>, <<DefaultTeam("OPS"), NoFile>>}
  /\ remote \in {[NoRemote EXCEPT !.teams = t] : t \in DistinctSeqsUpTo(TeamUniverse, MaxTeams)}

FetchProfiles ==
  [priority : {Some(1)}, assignee : {Me, Other}, state : {Todo, InReview}, comments : {<<>>}]

InitFetch ==
  /\ command = "fetch"
  /\ variant = "general"
  /\ argv \in {limit \o mine : limit \in {<<>>, <<"--limit", "1">>, <<"--limit", "5">>},
                                mine \in {<<>>, <<"--my-issues">>}}
  /\ options = opts(variant, argv)
  /\ \E b \in SeqsUpTo(FetchProfiles, MaxIssues) : remoteIssues = WithIds(b)
  /\ request = NoRequest
  /\ response = NoResponse
  /\ output = <<>>
  /\ locals = NoLocals
  /\ sent = <<>>
  /\ lastRun = None
  /\ pc = "start"
  /\ apiKey \in BOOLEAN
  /\ globalFile = NoFile
  /\ localFiles = <<NoFile>>
  /\ remote = NoRemote

\* The ranking command of the three variants on batches of one issue.
InitRank == InitWith(SeqsUpTo(StatusProfiles, 1), OptionSets(BOOLEAN))

InitCommand == InitRank \/ InitDone \/ InitTeams \/ InitFetch

SpecCommand == InitCommand /\ [][NextCommand]_vars

\* The config files: the global file, and the .linear.toml of up to MaxDirs
\* directories below the filesystem root and of the root.
GlobalFiles ==
  {NoFile, Unparsable, DefaultTeam("ENG"),
   ParsedFile([defaultTeam |-> Some("ENG"), deploymentTarget |-> Some("production")])}

LocalFileUniverse == {NoFile, Unparsable, DefaultTeam("OPS"), LocalTarget("staging")}

LocalFileLists == SeqsUpTo(LocalFileUniverse, MaxDirs + 1) \ {<<>>}

\* The commands that read the config, on every combination of config files;
\* after set-default the program is run once more.
InitConfig ==
  /\ variant \in {"newest", "middle"}
  /\ \E a \in {<<"--limit", "1">>, <<"teams">>} \cup
               {<<"teams", "--set-default", k>> : k \in {"ENG", "OPS", "WEB"}} :
        /\ argv = a
        /\ command = IF a[1] = "teams" THEN "teams" ELSE "rank"
        /\ options = IF a[1] # "teams" THEN opts(variant, a)
                     ELSE [setDefault |-> IF Len(a) = 3 THEN Some(a[3]) ELSE None]
  /\ remoteIssues = <<>>
  /\ request = NoRequest
  /\ response = NoResponse
  /\ output = <<>>
  /\ locals = NoLocals
  /\ sent = <<>>
  /\ lastRun = None
  /\ pc = "start"
  /\ apiKey \in BOOLEAN
  /\ globalFile \in GlobalFiles
  /\ localFiles \in LocalFileLists
  /\ remote = [NoRemote EXCEPT !.teams = <<Engineering, Operations>>]

SpecConfig == InitConfig /\ [][Next \/ NextTeams \/ NextInvocation]_vars

\* The programs of the ranking command and of the general fetch on every
\* command line, the empty one included, and the commands on teams.
ProgramProfiles ==
  [priority : {Some(1), Some(2)}, assignee : {Me, Other}, state : {Todo}, comments : {<<>>}]

InitProgram ==
  /\ command = "rank"
  /\ variant \in Variants
  /\ argv \in CommandLines(variant, {})
  /\ options = opts(variant, argv)
  /\ \E b \in SeqsUpTo(ProgramProfiles, MaxIssues) : remoteIssues = WithIds(b)
  /\ request = NoRequest
  /\ response = NoResponse
  /\ output = <<>>
  /\ locals = NoLocals
  /\ sent = <<>>
  /\ lastRun = None
  /\ pc = "start"
  /\ apiKey \in BOOLEAN
  /\ globalFile = NoFile
  /\ localFiles = <<NoFile>>
  /\ remote = NoRemote

SpecProgram ==
  (InitProgram \/ InitFetch \/ InitTeams) /\ [][NextProgram \/ NextFetch \/ NextTeams]_vars

----------------------------------------------------------------------------
(* Vocabulary of the properties.                                           *)

Batch == response.issues
OutIdx == 1..Len(output)
OutIds == {output[k].id : k \in OutIdx}
Fetched(id) == CHOOSE i \in {Batch[j] : j \in 1..Len(Batch)} : i.id = id
Override == variant = "newest" /\ options.includeCommented
LimitIsNumber == ~IsNone(options.limit)

\* The viewer authored a fetched comment of the issue strictly after
\* now minus the window of the variant.
ViewerCommentedRecently(issue) ==
  \E j \in 1..Len(issue.comments) :
     /\ issue.comments[j].user = response.viewer
     /\ issue.comments[j].createdAt > Cutoff(variant)

\* The filtering policy of the variant and mode, stated on the fetched issue.
Eligible(issue) ==
  /\ Override \/ ~ViewerCommentedRecently(issue)
  /\ CASE variant = "newest" /\ ~options.backlog -> issue.assignee = response.viewer
       [] variant = "oldest" -> TRUE
       [] OTHER -> issue.assignee \in {NoUser, response.viewer}

EligibleCount == Cardinality({j \in 1..Len(Batch) : Eligible(Batch[j])})

----------------------------------------------------------------------------
(* C1: no issue is output for which the viewer authored a fetched comment  *)
(* strictly after now minus the recency window, unless                     *)
(* --include-commented (newest variant) is set.                            *)
C1_NoRecentlyCommentedIssueOutput ==
  (pc = "done" /\ ~Override) =>
     \A k \in OutIdx : ~ViewerCommentedRecently(Fetched(output[k].id))

\* An otherwise eligible issue with a recent comment of the viewer was
\* fetched and left out.
C1_Witness ==
  /\ pc = "done" /\ ~Override
  /\ LimitIsNumber /\ Val(options.limit) >= 1
  /\ \E j \in 1..Len(Batch) :
        /\ ViewerCommentedRecently(Batch[j])
        /\ Batch[j].assignee = response.viewer
        /\ Batch[j].id \notin OutIds

----------------------------------------------------------------------------
\* The record the processing loop builds for a fetched issue.
RecordOf(issue) ==
  ProcessedRecord(issue, ScanComments(issue.comments, response.viewer, Cutoff(variant)),
                  response.viewer)

(* C2: the output is the first `limit` entries of the filtered, sorted     *)
(* batch: its length is min(limit, number of eligible fetched issues), and *)
(* no eligible fetched issue that ranks strictly above an output issue is  *)
(* left out.                                                               *)
C2_OutputIsTopOfFilteredSortedBatch ==
  (pc = "done" /\ LimitIsNumber /\ Val(options.limit) >= 0) =>
     /\ Len(output) = Min(Val(options.limit), EligibleCount)
     /\ \A j \in 1..Len(Batch) :
          (Eligible(Batch[j]) /\ Batch[j].id \notin OutIds) =>
             \A k \in OutIdx : ~(Compare(variant, RecordOf(Batch[j]), output[k]) < 0)

(* C3, as stated: in every variant no output issue is assigned to a user   *)
(* other than the viewer, and in the newest variant without --backlog      *)
(* every output issue is assigned to the viewer.                           *)
C3_NoStrangerInAnyVariant ==
  pc = "done" =>
     \A k \in OutIdx :
        /\ Fetched(output[k].id).assignee \in {NoUser, response.viewer}
        /\ (variant = "newest" /\ ~options.backlog) =>
              Fetched(output[k].id).assignee = response.viewer

(* C3, amended: in the newest and middle variants no output issue is       *)
(* assigned to a user other than the viewer, and in the newest variant     *)
(* without --backlog every output issue is assigned to the viewer.         *)
C3_NoStrangerInNewerVariants ==
  pc = "done" =>
     \A k \in OutIdx :
        /\ variant \in {"newest", "middle"} =>
              Fetched(output[k].id).assignee \in {NoUser, response.viewer}
        /\ (variant = "newest" /\ ~options.backlog) =>
              Fetched(output[k].id).assignee = response.viewer

\* The newest variant without --backlog fetched an issue of a colleague
\* next to one of the viewer, and printed only the viewer's.
C3_Witness ==
  /\ pc = "done" /\ variant = "newest" /\ ~options.backlog
  /\ LimitIsNumber /\ Val(options.limit) >= Len(Batch)
  /\ \E j \in 1..Len(Batch) : Batch[j].assignee = Other
  /\ Len(output) = 1 /\ output[1].assignee = response.viewer

(* C4: in the output every issue with isAssignedToMe = true comes before   *)
(* every issue with isAssignedToMe = false.                                *)
C4_AssignedToMeFirst ==
  pc = "done" =>
     \A i, j \in OutIdx :
        (i < j /\ output[j].isAssignedToMe) => output[i].isAssignedToMe

\* The sort moved an issue of the viewer in front of an issue that was
\* fetched earlier and has the better status and priority.
C4_Witness ==
  /\ pc = "done"
  /\ \E i, j \in OutIdx :
        /\ i < j
        /\ output[i].isAssignedToMe /\ ~output[j].isAssignedToMe
        /\ output[j].id < output[i].id
        /\ CompareNoAssignment(variant, output[j], output[i]) < 0

C6_ExampleOutput ==
  ( /\ pc = "done"
    /\ Batch = WithIds(ExampleBatch)
    /\ options.limit = Some(2) )
  => /\ Len(output) = 2
     /\ output[1].priority = Some(2) /\ output[1].isAssignedToMe
     /\ output[2].priority = Some(0) /\ output[2].isAssignedToMe

(* C7: the output holds no issue whose workflow state type is "completed"  *)
(* or "canceled".                                                          *)
C7_NoClosedIssueOutput ==
  pc = "done" =>
     \A k \in OutIdx :
        remoteIssues[output[k].id].state.type \notin {"completed", "canceled"}

\* The remote service holds a closed issue whose state name no variant
\* excludes, and the command printed every other issue.
C7_Witness ==
  /\ pc = "done"
  /\ \E j \in 1..Len(remoteIssues) : remoteIssues[j].state \in {Shipped, WontFix}
  /\ \E j \in 1..Len(remoteIssues) : remoteIssues[j].state \in {Todo, InReview}
  /\ Len(output) = 1 /\ options.limit = Some(MaxLimit)

(* C8: for every limit the command line can produce the number of issues   *)
(* output is at most `limit` and at most the number of eligible issues.    *)
\* (No issue is printed at a position beyond `limit`, so that a run that
\* prints nothing meets the claim for every limit.)
C8_OutputAtMostLimit ==
  (pc = "done" /\ LimitIsNumber) =>
     /\ \A k \in OutIdx : k <= Val(options.limit)
     /\ Len(output) <= EligibleCount

----------------------------------------------------------------------------
\* The greatest timestamp of a non-empty comment list.
MaxCommentTime(comments) ==
  CHOOSE t \in {comments[j].createdAt : j \in 1..Len(comments)} :
     \A j \in 1..Len(comments) : comments[j].createdAt <= t

(* C9: every output record carries lastCommentTime equal to the maximum    *)
(* timestamp over all fetched comments of its issue, absent when the issue *)
(* has no comment, in every mode.                                          *)
C9_LastCommentTimeIsMax ==
  pc = "done" =>
     \A k \in OutIdx :
        LET comments == Fetched(output[k].id).comments
        IN output[k].lastCommentTime =
             IF comments = <<>> THEN None
             ELSE Some(ToISOString(MaxCommentTime(comments)))

(* C10: hasRecentComment is true exactly when some fetched comment is by   *)
(* the viewer and strictly newer than now minus the window.  Observed on   *)
(* a batch of one issue assigned to the viewer, with a limit of at least   *)
(* one and no override: the issue is left out exactly in that case; with   *)
(* the 2 hour window a viewer comment of 30 minutes ago leaves it out and  *)
(* one of 3 hours ago does not.                                            *)
C10_RecentCommentExact ==
  ( /\ pc = "done" /\ ~Override
    /\ LimitIsNumber /\ Val(options.limit) >= 1
    /\ Len(Batch) = 1 /\ Batch[1].assignee = response.viewer )
  => /\ (output = <<>>) <=> ViewerCommentedRecently(Batch[1])
     /\ (variant # "newest" /\ Batch[1].comments = <<[user |-> Me, createdAt |-> Now - 30 * Minute]>>)
           => output = <<>>
     /\ (variant # "newest" /\ Batch[1].comments = <<[user |-> Me, createdAt |-> Now - 3 * Hour]>>)
           => Len(output) = 1

\* An issue is printed although the viewer commented exactly at the
\* boundary and a colleague commented after it.
C10_Witness ==
  /\ pc = "done" /\ ~Override
  /\ Len(Batch) = 1 /\ Len(output) = 1
  /\ \E j \in 1..Len(Batch[1].comments) :
        /\ Batch[1].comments[j].user = response.viewer
        /\ Batch[1].comments[j].createdAt = Cutoff(variant)
  /\ \E j \in 1..Len(Batch[1].comments) :
        /\ Batch[1].comments[j].user = Other
        /\ Batch[1].comments[j].createdAt > Cutoff(variant)

----------------------------------------------------------------------------
\* The status weights as the specification lists them.
StatusRank == <<"In Review", "In Progress", "Todo", "Backlog">>

ListedWeight(status) ==
  IF \E k \in 1..Len(StatusRank) : StatusRank[k] = status
  THEN CHOOSE k \in 1..Len(StatusRank) : StatusRank[k] = status
  ELSE Len(StatusRank) + 1

(* C11: in the newest and middle variants, among output issues equal on    *)
(* assignment, issues appear in non-decreasing status weight ("In Review"  *)
(* 1, "In Progress" 2, "Todo" 3, "Backlog" 4, any other status 5),         *)
(* whatever their priorities are.                                          *)
C11_StatusWeightNonDecreasing ==
  (pc = "done" /\ variant # "oldest") =>
     \A i, j \in OutIdx :
        (i < j /\ output[i].isAssignedToMe = output[j].isAssignedToMe)
        => ListedWeight(output[i].status) <= ListedWeight(output[j].status)

\* The sort moved an issue of better status and worse priority in front of
\* an issue fetched earlier, and an issue of unlisted status went last.
C11_Witness ==
  /\ pc = "done" /\ variant # "oldest"
  /\ \E i, j \in OutIdx :
        /\ i < j
        /\ output[i].isAssignedToMe = output[j].isAssignedToMe
        /\ output[j].id < output[i].id
        /\ output[j].status = "Triage" /\ output[i].status = "Backlog"
        /\ output[i].priority = Some(4) /\ output[j].priority = Some(1)

----------------------------------------------------------------------------
\* The priority weight as the specification lists it: 1 to 4, and 5 for a
\* priority of 0 or none.
ListedPriorityWeight(p) == IF p \in {None, Some(0)} THEN 5 ELSE Val(p)

\* Equal on assignment, status weight (where the variant ranks by status)
\* and priority weight.
EqualOnRankingKeys(v, a, b) ==
  /\ a.isAssignedToMe = b.isAssignedToMe
  /\ v # "oldest" => ListedWeight(a.status) = ListedWeight(b.status)
  /\ ListedPriorityWeight(a.priority) = ListedPriorityWeight(b.priority)

(* C12: in every variant two output issues that are equal on all ranking   *)
(* keys appear in the same relative order as in the fetched batch.         *)
C12_EqualKeysKeepBatchOrder ==
  pc = "done" =>
     \A i, j \in OutIdx :
        (i < j /\ EqualOnRankingKeys(variant, output[i], output[j]))
        => output[i].id < output[j].id

----------------------------------------------------------------------------
(* Vocabulary of the properties of the done-transition.                    *)

SeqSet(q) == {q[k] : k \in 1..Len(q)}
Count(q, x) == Cardinality({k \in 1..Len(q) : q[k] = x})

\* The update mutations sent so far, as positions of the request log.
UpdateIdx == {k \in 1..Len(sent) : sent[k].op = "UpdateIssue"}

\* The labels the issue carries on the remote service, and their ids.
CurrentLabels == SeqSet(Val(remote.issue).labels)
CurrentLabelIds == {l.id : l \in CurrentLabels}

\* The resolved environment label, as the remote service holds it.
EnvLabel == CHOOSE l \in SeqSet(remote.labels) : l.id = Val(locals.environmentLabel).id

\* The labels of the remote service in the parent group of a label.
GroupOf(label) ==
  IF IsNone(label.parent) THEN {}
  ELSE {l \in SeqSet(remote.labels) : l.parent = label.parent}

\* The labels named like an environment, whatever the case.
NamedLikeEnvironment(labels) == {l \in labels : ToLowerCase(l.name) \in EnvironmentNames}

(* C13, as stated: the label set sent in the update equals the issue's     *)
(* current labels minus every label of the parent group of the resolved    *)
(* environment label, plus that label; every current label that is not in  *)
(* that group is kept.                                                     *)
C13_LabelsMinusGroupPlusTarget ==
  \A k \in UpdateIdx :
     /\ ~IsNone(sent[k].input.labelIds)
     /\ SeqSet(Val(sent[k].input.labelIds)) =
          (CurrentLabelIds \ {l.id : l \in GroupOf(EnvLabel)}) \cup {EnvLabel.id}

(* C13, amended: when the resolved environment label has a parent group,   *)
(* the label set sent equals the current labels minus the labels of that   *)
(* group plus the environment label; when it has no parent group, it       *)
(* equals the current labels minus the labels named staging, production,   *)
(* staging environment or production environment (in any case) plus the    *)
(* environment label.                                                      *)
C13_LabelsMinusGroupOrEnvironmentNames ==
  \A k \in UpdateIdx :
     /\ ~IsNone(sent[k].input.labelIds)
     /\ SeqSet(Val(sent[k].input.labelIds)) =
          (CurrentLabelIds \
             {l.id : l \in IF IsNone(EnvLabel.parent)
                           THEN NamedLikeEnvironment(CurrentLabels)
                           ELSE GroupOf(EnvLabel)})
          \cup {EnvLabel.id}

\* The issue carried another label of the environment label's group and
\* a label outside the group: the update drops the first, keeps the second.
C13_Witness ==
  /\ UpdateIdx # {}
  /\ ~IsNone(EnvLabel.parent)
  /\ \E k \in UpdateIdx : \E gone, stays \in CurrentLabels :
        /\ gone \in GroupOf(EnvLabel) /\ gone # EnvLabel
        /\ stays \notin GroupOf(EnvLabel)
        /\ gone.id \notin SeqSet(Val(sent[k].input.labelIds))
        /\ stays.id \in SeqSet(Val(sent[k].input.labelIds))

----------------------------------------------------------------------------
\* The deployment target of the merged config, in lower case; None when
\* the config has none.
Target ==
  IF IsNone(Config.deploymentTarget) THEN None
  ELSE Some(ToLowerCase(Val(Config.deploymentTarget)))

\* The users whose name or email contains "colby", whatever the case.
MatchingUsers ==
  {u \in SeqSet(remote.users) :
     \/ ToLowerCase(u.name) \in Containing("colby")
     \/ ToLowerCase(u.email) \in Containing("colby")}

\* The workflow states whose name contains "review", whatever the case.
ReviewStates == {st \in SeqSet(remote.states) : ToLowerCase(st.name) \in Containing("review")}

\* The labels the done-transition accepts for the target: named like the
\* target, or like the target followed by " environment".
TargetLabels(labels) ==
  {l \in labels :
     /\ ~IsNone(Target)
     /\ ToLowerCase(l.name) \in {Val(Target), Val(Target) \o " environment"}}

\* The ticket, the reviewer, the review state or the environment label is
\* not there to be found.
SomethingNotFound ==
  \/ IsNone(remote.issue)
  \/ MatchingUsers = {}
  \/ ReviewStates = {}
  \/ TargetLabels(SeqSet(remote.labels)) = {}

(* C14: in every run of the done-transition in which the ticket, the       *)
(* reviewer, the review state or the environment label is not found, no    *)
(* update mutation is ever sent, success is never reported, and when the   *)
(* run has ended it has ended with a fatal error.                          *)
C14_NotFoundIsFatalWithoutUpdate ==
  SomethingNotFound =>
     /\ UpdateIdx = {}
     /\ pc # "done"
     /\ pc = "failed" \/ ENABLED NextDone

\* The reviewer and the review state were resolved, the label was found
\* neither in the team nor in the workspace, and the run ended in error
\* after the workspace labels query.
C14_Witness ==
  /\ pc = "failed"
  /\ TargetLabels(SeqSet(remote.labels)) = {}
  /\ ~IsNone(locals.colby) /\ ~IsNone(locals.inReviewState)
  /\ Len(sent) = 6 /\ sent[6].op = "GetWorkspaceLabels"
  /\ UpdateIdx = {}

(* C15: when more than one workspace user matches the reviewer name (by    *)
(* substring of name or email) the run ends with an error and no update    *)
(* is sent; the update is sent only when exactly one user matches.         *)
C15_AmbiguousReviewerIsError ==
  /\ Cardinality(MatchingUsers) > 1 => (UpdateIdx = {} /\ pc # "done")
  /\ UpdateIdx # {} => Cardinality(MatchingUsers) = 1

----------------------------------------------------------------------------
\* The lookups that come before the update.
Lookups == {"GetIssue", "GetUsers", "GetStates", "GetLabels"}

(* C16: at most one update mutation is sent; it is sent after the issue,   *)
(* the reviewer, the review state and the environment label have been      *)
(* looked up and found, and that one call carries the new assignee, the    *)
(* new state and the new label list together.                              *)
C16_OneUpdateAfterAllResolved ==
  /\ Cardinality(UpdateIdx) <= 1
  /\ \A k \in UpdateIdx :
        /\ \A op \in Lookups : \E j \in 1..(k - 1) : sent[j].op = op
        /\ ~SomethingNotFound
        /\ sent[k].input.id = TicketId
        /\ sent[k].input.assigneeId \in {Some(u.id) : u \in MatchingUsers}
        /\ sent[k].input.stateId \in {Some(st.id) : st \in ReviewStates}
        /\ ~IsNone(sent[k].input.labelIds)
        /\ EnvLabel.id \in SeqSet(Val(sent[k].input.labelIds))

\* The run sent its one update, found the label in the workspace only,
\* and reported success.
C16_Witness ==
  /\ pc = "done"
  /\ Cardinality(UpdateIdx) = 1
  /\ Len(sent) = 7 /\ sent[6].op = "GetWorkspaceLabels" /\ sent[7].op = "UpdateIssue"

(* C17: the label id list of the update contains the resolved environment  *)
(* label exactly once and no other label of its parent group (when it has  *)
(* no parent group: no other label named staging, production, staging      *)
(* environment or production environment), whatever labels the issue       *)
(* carried, also when it carried the target label already.                 *)
C17_TargetOnceAndNoOtherEnvironment ==
  \A k \in UpdateIdx :
     /\ ~IsNone(sent[k].input.labelIds)
     /\ Count(Val(sent[k].input.labelIds), EnvLabel.id) = 1
     /\ \A l \in SeqSet(remote.labels) :
          (l.id \in SeqSet(Val(sent[k].input.labelIds)) /\ l # EnvLabel)
          => IF IsNone(EnvLabel.parent)
             THEN ToLowerCase(l.name) \notin EnvironmentNames
             ELSE l.parent # EnvLabel.parent

\* The issue carried the target label and another label of its group.
C17_Witness ==
  /\ UpdateIdx # {}
  /\ EnvLabel \in CurrentLabels
  /\ \E l \in CurrentLabels : l # EnvLabel /\ l \in GroupOf(EnvLabel)
  /\ \A k \in UpdateIdx : Len(Val(sent[k].input.labelIds)) = 1

(* C18, as stated: the resolved environment label is a label whose name    *)
(* equals the deployment target (in any case), taken from the team labels  *)
(* when one exists there and from the workspace labels only when the team  *)
(* has none; a label of any other name is never chosen.                    *)
C18_LabelNamedExactlyLikeTarget ==
  ~IsNone(locals.environmentLabel) =>
     /\ ToLowerCase(EnvLabel.name) = Val(Target)
     /\ (\E l \in SeqSet(remote.labels) : l.team /\ ToLowerCase(l.name) = Val(Target))
           => EnvLabel.team

(* C18, amended: the resolved environment label is a label whose name, in  *)
(* any case, equals the deployment target or the target followed by        *)
(* " environment"; it is the first such label of the team labels when the  *)
(* team has one, and the first such label of the workspace labels only     *)
(* when the team has none.                                                 *)
C18_LabelNamedLikeTargetOrTargetEnvironment ==
  ~IsNone(locals.environmentLabel) =>
     LET teamOnes == TargetLabels({l \in SeqSet(remote.labels) : l.team})
         pool == IF teamOnes # {} THEN teamOnes ELSE TargetLabels(SeqSet(remote.labels))
     IN /\ EnvLabel \in pool
        /\ \A k, j \in 1..Len(remote.labels) :
              (remote.labels[k] = EnvLabel /\ remote.labels[j] \in pool) => k <= j

\* The team has labels but not the target's; the workspace label, written
\* in another case than the target, is chosen.
C18_Witness ==
  /\ ~IsNone(locals.environmentLabel)
  /\ ~EnvLabel.team
  /\ EnvLabel.name # Val(Target)
  /\ \E l \in SeqSet(remote.labels) : l.team

(* C19: success is reported only when the one update call reported        *)
(* success; when it reports failure the run ends in error, when it throws  *)
(* the run ends in error, and no second update is sent.                    *)
C19_SuccessOnlyOnReportedSuccess ==
  /\ pc = "done" =>
        /\ Cardinality(UpdateIdx) = 1
        /\ locals.updateResponse = Some([success |-> TRUE])
  /\ locals.updateResponse = Some([success |-> FALSE]) => pc = "failed"
  /\ (UpdateIdx # {} /\ IsNone(locals.updateResponse) /\ ~ENABLED NextDone)
        => pc = "failed"
  /\ Cardinality(UpdateIdx) <= 1

\* The update was sent once and reported failure: the run ended in error.
C19_Witness ==
  /\ pc = "failed"
  /\ Cardinality(UpdateIdx) = 1
  /\ locals.updateResponse = Some([success |-> FALSE])

----------------------------------------------------------------------------
(* C20: in every command of every variant (ranking, teams list,            *)
(* set-default, done, general fetch), when LINEAR_API_KEY is missing the   *)
(* run ends in error from its first step: no request has been sent to the  *)
(* remote service, nothing is printed as a result, and no step writes the  *)
(* global config file.                                                     *)
C20_MissingKeyFailsBeforeRequestAndWrite ==
  /\ [](~apiKey => (sent = <<>> /\ request = NoRequest /\ pc \in {"start", "failed"}))
  /\ [][~apiKey => (pc' = "failed" /\ globalFile' = globalFile /\ localFiles' = localFiles)]_vars

\* set-default without the key: the run has ended in error, the config
\* file that was there is still there.
C20_Witness ==
  /\ ~apiKey /\ pc = "failed"
  /\ IsSetDefault
  /\ globalFile = DefaultTeam("ENG") /\ options.setDefault = Some("OPS")

----------------------------------------------------------------------------
(* The program as a whole: command line, invocations, configuration.       *)

\* C21: in each invocation of the ranking command, the one without
\* arguments included, the viewer and the batch are fetched exactly once
\* (one query is sent) and the ranked list is printed exactly once.
C21_OneFetchAndOneOutputPerInvocation ==
  /\ command = "rank" => Len(sent) <= 1
  /\ (command = "rank" /\ pc = "done") =>
        /\ Len(sent) = 1
        /\ output = FocusedIssues(variant, options, Batch, response.viewer)

\* A config file that exists but does not parse, read as an empty object.
AsEmpty(file) == IF file.exists /\ ~file.parses THEN ParsedFile(EmptyConfig) ELSE file

\* What loadConfig returns when every unparsable file is read as empty.
ConfigWithUnparsableAsEmpty ==
  loadConfig(variant, AsEmpty(globalFile),
             [k \in 1..Len(localFiles) |-> AsEmpty(localFiles[k])])

\* C22: a config file that exists but cannot be parsed does not abort the
\* command and counts as an empty config: loadConfig returns what it would
\* return had the file parsed to an empty object, and the teams listing
\* marks the default team of that result.
C22_UnparsableFileLoadsAsEmptyConfig ==
  /\ pc \notin {"start", "failed"} => Config = ConfigWithUnparsableAsEmpty
  /\ (IsListTeams /\ pc = "done") =>
        \A k \in OutIdx :
           output[k].isDefault = (ConfigWithUnparsableAsEmpty.defaultTeam = Some(output[k].key))

\* The config of the global file, and the config of the nearest .linear.toml
\* that is found and read walking up from the working directory (the
\* directories below the filesystem root).
GlobalConfigRead ==
  IF globalFile.exists /\ globalFile.parses THEN globalFile.content ELSE EmptyConfig
LocalFound == {k \in 1..(Len(localFiles) - 1) : localFiles[k].exists /\ localFiles[k].parses}
NearestLocalConfig ==
  IF LocalFound = {} THEN EmptyConfig
  ELSE localFiles[CHOOSE k \in LocalFound : \A j \in LocalFound : k <= j].content

\* The union of the two, the local value winning on every key of both.
UnionLocalWins(config) ==
  \A key \in ConfigKeys :
     /\ ~IsNone(NearestLocalConfig[key]) => config[key] = NearestLocalConfig[key]
     /\ IsNone(NearestLocalConfig[key]) => config[key] = GlobalConfigRead[key]

ConfigLoaded == pc \notin {"start", "failed"} /\ ~(IsSetDefault /\ pc = "done")

DecimalTexts == {"-1", "0", "1", "2", "3", "5", "10", "11"}
Decimal(t) ==
  CASE t = "-1" -> -1 [] t = "0" -> 0 [] t = "1" -> 1 [] t = "2" -> 2
    [] t = "3" -> 3 [] t = "5" -> 5 [] t = "10" -> 10 [] t = "11" -> 11

\* C24: in every variant a decimal number N given to --limit is the limit
\* that is used: options.limit is N, the ranking command prints the top
\* min(N, number of eligible issues) issues, and the general fetch
\* requests (and prints) at most N issues.
C24_DecimalLimitIsTheLimitUsed ==
  \A k \in 1..(Len(argv) - 1) :
     (argv[k] = "--limit" /\ argv[k + 1] \in DecimalTexts) =>
        LET N == Decimal(argv[k + 1])
        IN /\ options.limit = Some(N)
           /\ (command = "rank" /\ pc = "done" /\ N >= 0) =>
                 Len(output) = Min(N, EligibleCount)
           /\ (command = "fetch" /\ pc \in {"issues", "done"}) =>
                 sent[1].input.first = Some(N)
           /\ (command = "fetch" /\ pc = "done") => Len(output) <= N

\* The commands that only read: the ranking command and the teams listing.
ReadOnlyCommand == command = "rank" \/ IsListTeams

\* The operations of the remote service that are queries.
QueryOps == {"GetIssuesAndViewer", "teams"}

\* The list one run of the ranking step makes of the fetched batch.
RankedList == FocusedIssues(variant, options, Batch, response.viewer)

ReviewStateResolved == pc \in {"GetLabels", "GetWorkspaceLabels", "UpdateIssue", "done"}

\* C26: the done-transition takes as review state a workflow state of the
\* issue's team whose name contains "review", whatever the case.  When the
\* team has such a state the resolution succeeds (the not-found error is
\* not raised, the run goes on) and the chosen state is one of them; when
\* it has none the run ends with the error and no update is sent.
C26_ReviewStateIsAStateNamedReview ==
  /\ ReviewStateResolved =>
        /\ ~IsNone(locals.inReviewState)
        /\ Val(locals.inReviewState) \in ReviewStates
  /\ \A k \in UpdateIdx :
        \E st \in ReviewStates : sent[k].input.stateId = Some(st.id)
  /\ (pc = "GetStates" /\ ReviewStates # {}) =>
        (ENABLED DoneGetLabels /\ ~ENABLED DoneReviewStateNotFound)
  /\ (pc = "GetStates" /\ ReviewStates = {}) =>
        (ENABLED DoneReviewStateNotFound /\ ~ENABLED DoneGetLabels)
  /\ ReviewStates = {} => (~ReviewStateResolved /\ UpdateIdx = {})

\* The run succeeded with a state found by substring inside a word, behind
\* a state that is no review state.
C26_Witness ==
  /\ pc = "done"
  /\ remote.states = <<StateNode(Todo), StateNode(Preview)>>
  /\ locals.inReviewState = Some(StateNode(Preview))
  /\ \E k \in UpdateIdx : sent[k].input.stateId = Some(StateNode(Preview).id)

\* C27: a set-default K that reports success changes only the defaultTeam
\* key of the global config file: defaultTeam becomes K, every other key
\* of the global file keeps the value it had (a key the file did not have
\* stays absent), so nothing of a local .linear.toml gets into the file.
C27_SetDefaultChangesOnlyDefaultTeam ==
  [][(IsSetDefault /\ pc' = "done" /\ output' # <<>>) =>
        /\ globalFile'.exists /\ globalFile'.parses
        /\ globalFile'.content.defaultTeam = options.setDefault
        /\ \A key \in ConfigKeys \ {"defaultTeam"} :
              globalFile'.content[key] = GlobalConfigRead[key]]_vars

\* The invocation before this one was set-default K and reported success.
SetDefaultSucceeded(K) ==
  /\ ~IsNone(lastRun)
  /\ Val(lastRun).argv = <<"teams", "--set-default", K>>
  /\ Val(lastRun).output # <<>>

\* The ranking command, run without --team, has sent its query with the
\* team filter K.
RanksTeam(K) ==
  (command = "rank" /\ pc \in {"awaiting", "done"}) =>
     sent[Len(sent)] = Request("GetIssuesAndViewer", [team |-> Some(K)])

\* The teams listing has marked K, and only K, as the default.
ListsDefault(K) ==
  (IsListTeams /\ pc = "done") =>
     \A k \in OutIdx : output[k].isDefault = (output[k].key = K)

\* C28: once set-default K has reported success, the next ranking
\* invocation without --team filters by team K and the next teams listing
\* marks K and only K as the default, whatever the config files held.
C28_DefaultTeamTakesEffect ==
  \A K \in {"ENG", "OPS"} :
     SetDefaultSucceeded(K) => (RanksTeam(K) /\ ListsDefault(K))

----------------------------------------------------------------------------
\* The records the sort is given, and the sign of a comparator result.
Processed == ProcessIssues(variant, options, Batch, response.viewer)
Sign(x) == IF x < 0 THEN -1 ELSE IF x > 0 THEN 1 ELSE 0

\* C29: in every variant the comparator is a consistent ordering of the
\* records that are sorted: comparing a with b and b with a gives opposite
\* signs or zero twice, a record compares equal to itself, the comparator
\* is transitive, and so the printed list is in the order of the
\* comparator whatever comparisons the sort made.
C29_ComparatorIsConsistent ==
  pc = "done" =>
     /\ \A a, b \in SeqSet(Processed) :
           /\ Sign(Compare(variant, a, b)) = 0 - Sign(Compare(variant, b, a))
           /\ Compare(variant, a, a) = 0
     /\ \A a, b, c \in SeqSet(Processed) :
           (Compare(variant, a, b) <= 0 /\ Compare(variant, b, c) <= 0) =>
              Compare(variant, a, c) <= 0
     /\ \A i, j \in OutIdx : i < j => Compare(variant, output[i], output[j]) <= 0

----------------------------------------------------------------------------
\* The merged config names a deployment target that is staging or
\* production, whatever the case.
TargetIsValid == ~IsNone(Target) /\ Val(Target) \in {"staging", "production"}

\* C30: in the done-transition, when the merged config has no
\* deploymentTarget or one that is neither staging nor production (compared
\* case-insensitively), the process exits non-zero before any request is
\* issued: no lookup and no update is ever sent, and the only step the run
\* takes is the one that ends it with the error.
C30_InvalidTargetFailsBeforeAnyRequest ==
  /\ []((command = "done" /\ ~TargetIsValid) =>
           /\ sent = <<>>
           /\ pc \in {"start", "failed"}
           /\ (pc = "start" => ENABLED NextDone))
  /\ [][(command = "done" /\ ~TargetIsValid) => (pc' = "failed" /\ sent' = sent)]_vars

\* The key is set, the target is not valid, and the run has ended with the
\* error without a request.
C30_Witness ==
  /\ command = "done" /\ apiKey /\ pc = "failed" /\ sent = <<>>
  /\ ~IsNone(Target) /\ ~TargetIsValid
  /\ ~IsNone(remote.issue)

====
